---- MODULE Spec2Model ----
(***************************************************************************)
(* Blade generation (BladeGenerator.py) and pump assembly (Assembly.py).   *)
(*                                                                         *)
(* Numbers.  Floats are modelled in fixed point: a length or a factor x is *)
(* the integer x * One, with One = 2000, so that every halving the code    *)
(* does (height / 2.0, span / 2.0) is exact on the inputs enumerated here. *)
(* Chordwise coordinates and shape factors (xi, gamma, tau) are in         *)
(* thousandths (Milli).  Angles are in tenths of a degree (FullTurn =      *)
(* 3600 = 2*pi).  A vertex (cos(th)*R, sin(th)*R, z) is kept as the record *)
(* [r |-> R, th |-> th, z |-> z]; a rotation about Z adds to th.           *)
(*                                                                         *)
(* None is the empty tuple; no modelled array is ever empty once set.      *)
(***************************************************************************)
EXTENDS Integers, Sequences, FiniteSets, TLC

VARIABLES blade, last, pump, diffuser

vars == <<blade, last, pump, diffuser>>

----------------------------------------------------------------------------
(* Bounds of the model *)

\* largest points_per_chord passed to generate_surface
MaxN == 3
\* largest number of spanwise layers of a blade
MaxLayers == 3
\* largest n_blades passed to assemble_blades_on_cylinder
MaxBlades == 4

----------------------------------------------------------------------------
(* Fixed point *)

Milli == 10 * 10 * 10
One == 2 * Milli
FullTurn == 360 * 10
None == << >>

Half(x) == x \div 2

Max2(a, b) == IF a >= b THEN a ELSE b
Min2(a, b) == IF a <= b THEN a ELSE b

\* numpy .max() / .min() of a non-empty 1-d array
RECURSIVE SeqMax(_)
SeqMax(s) == IF Len(s) = 1 THEN s[1] ELSE Max2(s[1], SeqMax(Tail(s)))
RECURSIVE SeqMin(_)
SeqMin(s) == IF Len(s) = 1 THEN s[1] ELSE Min2(s[1], SeqMin(Tail(s)))

\* integer square root by bisection: the r with r*r <= n < (r+1)*(r+1)
RECURSIVE SqrtBetween(_, _, _)
SqrtBetween(n, lo, hi) ==
    IF hi - lo <= 1 THEN lo
    ELSE LET mid == (lo + hi) \div 2
         IN  IF mid * mid <= n THEN SqrtBetween(n, mid, hi)
                               ELSE SqrtBetween(n, lo, mid)
ISqrt(n) == SqrtBetween(n, 0, Milli + 1)

\* x[:, 2] of an (m, 3) vertex array
ZOf(verts) == [k \in 1..Len(verts) |-> verts[k].z]

----------------------------------------------------------------------------
(* Shape primitives, BladeGenerator.py 8-77.  x and the results are in       *)
(* thousandths.  The powers are closed-form only for alpha = 0.5, which is *)
(* the alpha of every layer enumerated below; eps = 1e-9 is below the      *)
(* resolution.                                                             *)

\* gamma(x) = x^a (1-x)^(1-a) / (a^a (1-a)^(1-a)), a = 0.5: 2 sqrt(x (1-x))
beta_distribution(x, alpha) ==
    CASE alpha = Milli \div 2 -> 2 * ISqrt(x * (Milli - x))

\* gamma_ext = gamma^kappa; kappa = 2 and a = 0.5: 4 x (1-x)
beta_distribution_extended(x, alpha, kappa) ==
    CASE alpha = Milli \div 2 /\ kappa = 2 -> (4 * x * (Milli - x)) \div Milli

\* np.clip
Clip(v, lo, hi) == Max2(lo, Min2(v, hi))

\* piecewise cosine ramp; the cosines are closed-form at x = 0, a, b, 1
thickness_distribution(x, a, b, beta) ==
    LET a1 == Clip(a, Milli \div 10, (3 * Milli) \div 10)
        b1 == Clip(b, (7 * Milli) \div 10, (9 * Milli) \div 10)
    IN  CASE x = 0 -> 0
          [] x = Milli -> 0
          [] x >= a1 /\ x <= b1 -> Milli

tapered_thickness_distribution(x, a, b, beta, taper) ==
    (thickness_distribution(x, a, b, beta) * (Milli - (taper * x) \div Milli)) \div Milli

----------------------------------------------------------------------------
(* Blade3D *)

\* Blade3D.__init__
Blade3D(span_layers, Theta, H, z0, hub_radius, shroud_radius) ==
    [layers |-> span_layers, Theta |-> Theta, H |-> H, z0 |-> z0,
     hub_radius |-> hub_radius, shroud_radius |-> shroud_radius,
     vertices_upper |-> None, vertices_lower |-> None, vertices_center |-> None,
     faces_upper |-> None, faces_lower |-> None, faces_center |-> None]

\* Blade3D._layer_radius; i is 0-based
LayerRadius(b, i, n) ==
    LET li == b.layers[i + 1]
    IN  IF "radius" \in DOMAIN li
        THEN li.radius
        ELSE IF n <= 1 THEN b.hub_radius
             ELSE ((n - 1 - i) * b.hub_radius + i * b.shroud_radius) \div (n - 1)

\* np.linspace(0.0, 1.0, N)[j]
Xi(j, N) == IF N <= 1 THEN 0 ELSE (j * Milli) \div (N - 1)

\* gamma and tau of one layer at x, chosen by prm['mode']
LayerGamma(prm, x) ==
    IF prm.mode = "extended"
    THEN beta_distribution_extended(x, prm.alpha, prm.kappa)
    ELSE beta_distribution(x, prm.alpha)

LayerTau(prm, x) ==
    IF prm.mode = "tapered"
    THEN tapered_thickness_distribution(x, prm.a, prm.b, prm.beta, prm.taper)
    ELSE thickness_distribution(x, prm.a, prm.b, prm.beta)

\* z_center of layer i (0-based) at chord index j (0-based)
ZCenter(b, i, j, N) ==
    LET prm == b.layers[i + 1]
        x == Xi(j, N)
    IN  b.z0 + (x * b.H) \div Milli - (prm.h_max * LayerGamma(prm, x)) \div Milli

\* t_max * tau of layer i at chord index j
Thick(b, i, j, N) ==
    LET prm == b.layers[i + 1]
    IN  (prm.t_max * LayerTau(prm, Xi(j, N))) \div Milli

\* theta = theta0 + xi * Theta
ThetaAt(b, i, j, N) == b.layers[i + 1].theta0 + (Xi(j, N) * b.Theta) \div Milli

\* np.vstack of the per-layer (N, 3) arrays: row i*N + j is layer i, chord j.
\* which is "upper", "lower" or "center".
StackVerts(b, N, which) ==
    LET n == Len(b.layers)
    IN  [k \in 1..(n * N) |->
            LET i == (k - 1) \div N
                j == (k - 1) % N
                Z(zc, t) == CASE which = "upper" -> zc + t
                              [] which = "lower" -> zc - t
                              [] which = "center" -> zc
            IN  [r |-> LayerRadius(b, i, n),
                 th |-> ThetaAt(b, i, j, N),
                 z |-> Z(ZCenter(b, i, j, N), Thick(b, i, j, N))]]

\* QuadList with the chord index wrapping around: a quad from chord N-1 back
\* to chord 0 in every layer pair
QuadListWrapped(N, num_layers) ==
    IF num_layers < 2 \/ N < 2 THEN << >>
    ELSE [k \in 1..((num_layers - 1) * N) |->
            LET i == (k - 1) \div N
                j == (k - 1) % N
                base0 == i * N
                base1 == (i + 1) * N
            IN  <<4, base0 + j, base0 + ((j + 1) % N), base1 + ((j + 1) % N), base1 + j>>]

\* the list `faces` of build_faces before np.hstack: one [4, v0, v1, v2, v3]
\* per layer pair i and chord step j, in loop order
QuadList(N, num_layers) ==
    IF num_layers < 2 \/ N < 2 THEN << >>
    ELSE [k \in 1..((num_layers - 1) * (N - 1)) |->
            LET i == (k - 1) \div (N - 1)
                j == (k - 1) % (N - 1)
                base0 == i * N
                base1 == (i + 1) * N
            IN  <<4, base0 + j, base0 + j + 1, base1 + j + 1, base1 + j>>]

\* np.hstack(faces): the flat connectivity array
build_faces(N, num_layers) ==
    LET hstack(q) ==
            [p \in 1..(5 * Len(q)) |-> q[((p - 1) \div 5) + 1][((p - 1) % 5) + 1]]
    IN  hstack(QuadList(N, num_layers))

\* generate_surface with the precondition num_layers >= 2 checked first
generate_surface_prechecked(b, points_per_chord) ==
    LET num_layers == Len(b.layers)
        N == points_per_chord
    IN  IF num_layers < 2 \/ N < 2
        THEN [blade |-> b, err |-> "InsufficientLayers"]
        ELSE LET FacedAll(faces) ==
                     [blade |-> [b EXCEPT !.vertices_upper = StackVerts(b, N, "upper"),
                                          !.vertices_lower = StackVerts(b, N, "lower"),
                                          !.vertices_center = StackVerts(b, N, "center"),
                                          !.faces_upper = faces,
                                          !.faces_lower = faces,
                                          !.faces_center = faces],
                      err |-> "none"]
             IN  FacedAll(build_faces(N, num_layers))

\* Blade3D.generate_surface: the blade afterwards and the error raised.
\* np.vstack([]) raises before anything is assigned; np.hstack([]) raises in
\* build_faces after the three vertex arrays have been assigned.
generate_surface(b, points_per_chord) ==
    LET num_layers == Len(b.layers)
        N == points_per_chord
    IN  IF num_layers = 0
        THEN [blade |-> b, err |-> "ValueError:vstack"]
        ELSE LET Faced(b1, faces) ==
                     IF faces = << >>
                     THEN [blade |-> b1, err |-> "ValueError:hstack"]
                     ELSE [blade |-> [b1 EXCEPT !.faces_upper = faces,
                                                !.faces_lower = faces,
                                                !.faces_center = faces],
                           err |-> "none"]
             IN  Faced([b EXCEPT !.vertices_upper = StackVerts(b, N, "upper"),
                                 !.vertices_lower = StackVerts(b, N, "lower"),
                                 !.vertices_center = StackVerts(b, N, "center")],
                       build_faces(N, num_layers))

\* the default points_per_chord=300 of generate_surface, and the 300 that
\* assemble_pump passes; reduced to the smallest even count that has interior
\* chord samples (N even decides whether the quad array of the surface path
\* reshapes to rows of four)
PointsPerChordDefault == 4

\* Blade3D.to_pyvista_mesh: the PolyData as [points, faces] (faces the flat
\* padded connectivity array), after generating the surface when there is none.
\* merge() appends the lower points after the upper ones.
OffsetFlat(flat, offset) ==
    [p \in 1..Len(flat) |-> IF (p - 1) % 5 = 0 THEN flat[p] ELSE flat[p] + offset]

to_pyvista_mesh(b, mode) ==
    LET PolyData(c) ==
            CASE mode = "both" ->
                     [points |-> c.vertices_upper \o c.vertices_lower,
                      faces |-> c.faces_upper
                                \o OffsetFlat(c.faces_lower, Len(c.vertices_upper))]
              [] mode = "upper" ->
                     [points |-> c.vertices_upper, faces |-> c.faces_upper]
              [] mode = "lower" ->
                     [points |-> c.vertices_lower, faces |-> c.faces_lower]
              [] mode = "center" ->
                     [points |-> c.vertices_center, faces |-> c.faces_center]
        Surfaced(g) ==
            IF g.err # "none" THEN [blade |-> g.blade, err |-> g.err, mesh |-> None]
            ELSE [blade |-> g.blade, err |-> "none", mesh |-> PolyData(g.blade)]
    IN  Surfaced(IF b.vertices_upper = None
                   THEN generate_surface(b, PointsPerChordDefault)
                   ELSE [blade |-> b, err |-> "none"])

\* the two triangles of quad (i, j) of a surface block starting at `offset`;
\* flip reverses the winding (the lower surface)
SurfaceTriangles(N, num_layers, offset, flip) ==
    IF num_layers < 2 \/ N < 2 THEN << >>
    ELSE [k \in 1..(2 * (num_layers - 1) * (N - 1)) |->
            LET q == (k - 1) \div 2
                i == q \div (N - 1)
                j == q % (N - 1)
                v0 == i * N + offset + j
                v1 == i * N + offset + j + 1
                v2 == (i + 1) * N + offset + j + 1
                v3 == (i + 1) * N + offset + j
            IN  IF (k - 1) % 2 = 0
                THEN (IF flip THEN <<v0, v2, v1>> ELSE <<v0, v1, v2>>)
                ELSE (IF flip THEN <<v0, v3, v2>> ELSE <<v0, v2, v3>>)]

\* the side faces joining upper (i, j), (i, j+1) to lower (i, j+1), (i, j)
SideTriangles(N, num_layers, offset) ==
    IF num_layers < 1 \/ N < 2 THEN << >>
    ELSE [k \in 1..(2 * num_layers * (N - 1)) |->
            LET q == (k - 1) \div 2
                i == q \div (N - 1)
                j == q % (N - 1)
                v0 == i * N + j
                v1 == i * N + j + 1
                v2 == i * N + offset + j + 1
                v3 == i * N + offset + j
            IN  IF (k - 1) % 2 = 0 THEN <<v0, v1, v2>> ELSE <<v0, v2, v3>>]

\* the vertices and faces handed to trimesh.Trimesh by
\* _generate_solid_from_surfaces, for a blade whose surface exists
SolidVertices(c, mode) ==
    (IF mode \in {"upper", "both"} THEN c.vertices_upper ELSE << >>)
    \o (IF mode \in {"lower", "both"} THEN c.vertices_lower ELSE << >>)

\* SolidFaces with the lower block offset by len(vertices_upper) in every mode
SolidFacesOffsetAlways(c, mode) ==
    LET num_layers == Len(c.layers)
        N == Len(c.vertices_upper) \div num_layers
        offset == Len(c.vertices_upper)
    IN  (IF mode \in {"upper", "both"}
         THEN SurfaceTriangles(N, num_layers, 0, FALSE) ELSE << >>)
        \o (IF mode \in {"lower", "both"}
            THEN SurfaceTriangles(N, num_layers, offset, TRUE) ELSE << >>)
        \o (IF mode = "both" THEN SideTriangles(N, num_layers, offset) ELSE << >>)

SolidFaces(c, mode) ==
    LET num_layers == Len(c.layers)
        N == Len(c.vertices_upper) \div num_layers
        offset == IF mode = "both" THEN Len(c.vertices_upper) ELSE 0
    IN  (IF mode \in {"upper", "both"}
         THEN SurfaceTriangles(N, num_layers, 0, FALSE) ELSE << >>)
        \o (IF mode \in {"lower", "both"}
            THEN SurfaceTriangles(N, num_layers, offset, TRUE) ELSE << >>)
        \o (IF mode = "both" THEN SideTriangles(N, num_layers, offset) ELSE << >>)

\* a trimesh.Trimesh built from vertices and faces
Trimesh(vertices, faces) == [kind |-> "trimesh", verts |-> vertices, faces |-> faces]

\* _generate_solid_from_surfaces regenerating the surface on every call
generate_solid_regenerating(b, mode) ==
    LET Regenerated(g) ==
            IF g.err # "none" THEN [blade |-> g.blade, err |-> g.err, mesh |-> None]
            ELSE [blade |-> g.blade, err |-> "none",
                  mesh |-> Trimesh(SolidVertices(g.blade, mode),
                                   SolidFaces(g.blade, mode))]
    IN  Regenerated(generate_surface(b, PointsPerChordDefault))

\* Blade3D._generate_solid_from_surfaces, up to the Trimesh it builds (the
\* repairs trimesh applies afterwards are the library's)
generate_solid_from_surfaces(b, mode) ==
    LET Solid(g) ==
            IF g.err # "none" THEN [blade |-> g.blade, err |-> g.err, mesh |-> None]
            ELSE [blade |-> g.blade, err |-> "none",
                  mesh |-> Trimesh(SolidVertices(g.blade, mode),
                                   SolidFaces(g.blade, mode))]
    IN  Solid(IF b.vertices_upper = None
              THEN generate_surface(b, PointsPerChordDefault)
              ELSE [blade |-> b, err |-> "none"])

----------------------------------------------------------------------------
(* Meshes.  A mesh is the sequence of the parts it was concatenated from;  *)
(* trimesh.util.concatenate is the concatenation of those sequences.       *)

\* trimesh.creation.cylinder(radius, height), centred on the origin
Cylinder(radius, height) ==
    [kind |-> "cylinder", radius |-> radius, height |-> height, zc |-> 0]

\* Trimesh.apply_translation([0, 0, dz]) on one part
apply_translation(part, dz) ==
    IF part.kind = "cylinder"
    THEN [part EXCEPT !.zc = @ + dz]
    ELSE [part EXCEPT !.verts = [k \in 1..Len(part.verts) |->
                                    [part.verts[k] EXCEPT !.z = @ + dz]]]

\* Trimesh.apply_transform(rotation_matrix(angle, [0, 0, 1])) on a blade copy
apply_rotation(part, angle) ==
    [part EXCEPT !.verts = [k \in 1..Len(part.verts) |->
                               [part.verts[k] EXCEPT !.th = (@ + angle) % FullTurn]]]

\* trimesh.util.concatenate
RECURSIVE concatenate(_)
concatenate(meshes) ==
    IF meshes = << >> THEN << >> ELSE Head(meshes) \o concatenate(Tail(meshes))

\* blade_mesh.faces.reshape(-1, 4)[:, 1:]
ReshapeDropFirst(flat) ==
    [k \in 1..(Len(flat) \div 4) |->
        <<flat[4 * (k - 1) + 2], flat[4 * (k - 1) + 3], flat[4 * (k - 1) + 4]>>]

\* the blade's z-span as assemble_blades_on_cylinder takes it
ZSpan(z_coords) == SeqMax(z_coords) - SeqMin(z_coords)

\* z_shift centring the blade on the cylinder
ZShift(z_coords, height, z_base) ==
    z_base + Half(height) - (SeqMin(z_coords) + Half(ZSpan(z_coords)))

\* angle = 2 * pi * i / n_blades
BladeAngle(i, n_blades) == (FullTurn * i) \div n_blades

\* one placed copy: copy, translate, then rotate
PlacedCopy(blade_mesh, z_shift, angle) ==
    apply_rotation(apply_translation(blade_mesh, z_shift), angle)

\* z_coords as first stored on the blade
StoreZCoords(c) ==
    IF "z_coords" \in DOMAIN c THEN c
    ELSE c @@ [z_coords |-> ZOf(c.vertices_upper) \o ZOf(c.vertices_lower)]

\* assemble_blades_on_cylinder: the blade afterwards, the error raised and
\* the mesh returned
assemble_blades_on_cylinder(b, n_blades, radius, height, z_base, as_solid) ==
    LET cylinder == apply_translation(Cylinder(radius, height), z_base + Half(height))
        \* lines 34-50, with the blade mesh and the blade carrying z_coords
        Placed(blade_mesh, c) ==
            IF height < ZSpan(c.z_coords)
            THEN [blade |-> c, err |-> "SpanExceedsHeight", mesh |-> None]
            ELSE [blade |-> c, err |-> "none",
                  mesh |-> concatenate(
                      <<  <<cylinder>>  >> \o
                      [i \in 1..n_blades |->
                          <<PlacedCopy(blade_mesh, ZShift(c.z_coords, height, z_base),
                                       BladeAngle(i - 1, n_blades))>>])]
        \* lines 24-32, with the outcome m of building the blade mesh
        Meshed(m) ==
            IF m.err # "none" THEN [blade |-> m.blade, err |-> m.err, mesh |-> None]
            ELSE IF ~as_solid /\ Len(m.mesh.faces) % 4 # 0
            THEN [blade |-> m.blade, err |-> "ValueError:reshape", mesh |-> None]
            ELSE Placed(IF as_solid THEN m.mesh
                        ELSE Trimesh(m.mesh.points, ReshapeDropFirst(m.mesh.faces)),
                        StoreZCoords(m.blade))
    IN  Meshed(IF as_solid THEN generate_solid_from_surfaces(b, "both")
                           ELSE to_pyvista_mesh(b, "both"))

----------------------------------------------------------------------------
(* create_diffuser, Assembly.py 53-148 *)

\* azimuth and polar divisions of the hemisphere grid (128 and 64 in the
\* source) and the divisions of the paraboloid grid (128), reduced
n_phi == 4
n_theta == 3
n_par == 3

\* cos, in thousandths, of the polar angles the reduced grids sample (tenths of
\* a degree); sin(t) = cos(90 - t)
CosMilli(t) ==
    CASE t = 0 -> 1000
      [] t = 225 -> 924
      [] t = 300 -> 866
      [] t = 450 -> 707
      [] t = 600 -> 500
      [] t = 675 -> 383
      [] t = 900 -> 0
SinMilli(t) == CosMilli(FullTurn \div 4 - t)

\* theta = np.linspace(0, pi/2, n_theta)[i]; phi = np.linspace(0, 2*pi, n)[j]
PolarAt(i) == (i * (FullTurn \div 4)) \div (n_theta - 1)
AzimuthAt(j, n) == (j * FullTurn) \div (n - 1)

\* HemisphereZ with the base circle of the 'bottom' hemisphere at z_base, as
\* the comment on line 87 has it
HemisphereZBaseAtZBase(radius_base, z_base, position, t) ==
    CASE position = "bottom" -> (0 - radius_base * CosMilli(t)) \div Milli + z_base
      [] position = "top" -> (radius_base * CosMilli(t)) \div Milli + z_base

\* Z of the hemisphere at polar angle t, by position
HemisphereZ(radius_base, z_base, position, t) ==
    CASE position = "bottom" ->
             (0 - radius_base * CosMilli(t)) \div Milli + z_base + radius_base
      [] position = "top" -> (radius_base * CosMilli(t)) \div Milli + z_base

\* verts of the hemisphere: row i * n_phi + j is polar index i, azimuth index j
HemisphereVerts(radius_base, z_base, position) ==
    [k \in 1..(n_theta * n_phi) |->
        LET i == (k - 1) \div n_phi
            j == (k - 1) % n_phi
        IN  [r |-> (radius_base * SinMilli(PolarAt(i))) \div Milli,
             th |-> AzimuthAt(j, n_phi),
             z |-> HemisphereZ(radius_base, z_base, position, PolarAt(i))]]

\* faces of the hemisphere: per polar row, n_phi - 1 quads and the wrap-around
\* quad of the last column, two triangles each
HemisphereFaces ==
    [k \in 1..(2 * (n_theta - 1) * n_phi) |->
        LET q == (k - 1) \div 2
            i == q \div n_phi
            j == q % n_phi
            wrap == j = n_phi - 1
            v0 == i * n_phi + j
            v1 == IF wrap THEN i * n_phi ELSE v0 + 1
            v2 == IF wrap THEN (i + 1) * n_phi ELSE (i + 1) * n_phi + j + 1
            v3 == (i + 1) * n_phi + j
        IN  IF (k - 1) % 2 = 0 THEN <<v0, v1, v2>> ELSE <<v0, v2, v3>>]

\* Z of the paraboloid at radial index j (R = j * radius_base / (n_par - 1))
ParaboloidZ(height, z_base, position, j) ==
    LET sq == (height * j * j) \div ((n_par - 1) * (n_par - 1))
    IN  CASE position = "bottom" -> sq + z_base
          [] position = "top" -> (height - sq) + z_base

\* verts of the paraboloid: row i * n_par + j is azimuth index i, radial index j
ParaboloidVerts(radius_base, height, z_base, position) ==
    [k \in 1..(n_par * n_par) |->
        LET i == (k - 1) \div n_par
            j == (k - 1) % n_par
        IN  [r |-> (j * radius_base) \div (n_par - 1),
             th |-> AzimuthAt(i, n_par),
             z |-> ParaboloidZ(height, z_base, position, j)]]

ParaboloidFaces ==
    [k \in 1..(2 * (n_par - 1) * (n_par - 1)) |->
        LET q == (k - 1) \div 2
            i == q \div (n_par - 1)
            j == q % (n_par - 1)
            v0 == i * n_par + j
            v1 == v0 + 1
            v2 == (i + 1) * n_par + j + 1
            v3 == (i + 1) * n_par + j
        IN  IF (k - 1) % 2 = 0 THEN <<v0, v1, v2>> ELSE <<v0, v2, v3>>]

\* create_diffuser: the error raised and the mesh returned
create_diffuser(shape, radius_base, radius_top, height, z_base, position) ==
    IF shape \notin {"hemisphere", "paraboloid"}
    THEN [err |-> "UnknownDiffuserShape", mesh |-> None]
    ELSE IF position \notin {"bottom", "top"}
    THEN [err |-> "InvalidPosition", mesh |-> None]
    ELSE IF shape = "hemisphere"
    THEN [err |-> "none",
          mesh |-> << [kind |-> "hemisphere",
                       verts |-> HemisphereVerts(radius_base, z_base, position),
                       faces |-> HemisphereFaces] >>]
    ELSE [err |-> "none",
          mesh |-> << [kind |-> "paraboloid",
                       verts |-> ParaboloidVerts(radius_base, height, z_base, position),
                       faces |-> ParaboloidFaces] >>]

----------------------------------------------------------------------------
(* assemble_pump, Assembly.py 151-224 *)

Abs(x) == IF x < 0 THEN 0 - x ELSE x

\* np.isclose(a, b, atol=1e-6), with numpy's default rtol = 1e-5:
\* |a - b| <= atol + rtol * |b|, on lengths in units of 1/One
AtolInv == 10 ^ 6
RtolInv == 10 ^ 5
IsCloseAbsolute(a, b) == Abs(a - b) <= One \div AtolInv
IsClose(a, b) == Abs(a - b) <= ((One * RtolInv) \div AtolInv + Abs(b)) \div RtolInv

\* the span assemble_pump checks a height against
PumpSpan(b) == SeqMax(ZOf(b.vertices_upper)) - SeqMin(ZOf(b.vertices_lower))

\* the three layer shapes (alpha, a, b, beta as in the example of
\* BladeGenerator.py 285-296)
LayerShape(k) ==
    LET base == [theta0 |-> 50 * k, h_max |-> One, t_max |-> One,
                 alpha |-> Milli \div 2, a |-> Milli \div 5, b |-> (4 * Milli) \div 5,
                 beta |-> (3 * Milli) \div 10]
    IN  CASE k % 3 = 0 -> base @@ [mode |-> "basic"]
          [] k % 3 = 1 -> base @@ [mode |-> "extended", kappa |-> 2]
          [] k % 3 = 2 -> base @@ [mode |-> "tapered", taper |-> Milli \div 2]

\* n layers, hub to shroud
LayerList(n) == [i \in 1..n |-> LayerShape(i - 1)]

\* the blade descriptions on disk, by file name
BladeFile(f) ==
    CASE f = "rotor3" -> Blade3D(LayerList(3), FullTurn \div 12, One, 0, One, 2 * One)
      [] f = "rotor2" -> Blade3D(LayerList(2), FullTurn \div 12, One, 0, One, 2 * One)
      [] f = "flat" -> Blade3D(LayerList(3), FullTurn \div 12, 0, 0, One, 2 * One)
      [] f = "inverted" ->
             Blade3D([i \in 1..3 |-> [LayerShape(0) EXCEPT !.t_max = 0 - One, !.h_max = 0]],
                     FullTurn \div 12, 0, 0, One, 2 * One)
      [] f = "near" -> Blade3D(LayerList(3), FullTurn \div 12, One, 0, One + 1, 2 * One)
      [] f = "wide" -> Blade3D(LayerList(3), FullTurn \div 12, One, 0, 50 * One, 51 * One)
      [] f = "widenear" ->
             Blade3D(LayerList(3), FullTurn \div 12, One, 0, 50 * One + 1, 51 * One)

Files == {"rotor3", "rotor2", "flat", "inverted", "near", "wide", "widenear"}
NoFile == "None"

\* Blade3D.load_metadata
load_metadata(f) == BladeFile(f)

\* the outcome of assemble_pump when it raises: no mapping is returned
PumpRaise(err, events, rotor_blade, vane_blade) ==
    [err |-> err, events |-> events, parts |-> None,
     rotor_blade |-> rotor_blade, vane_blade |-> vane_blade]

\* the mapping with the union computed before the vane is added to it
PumpPartsVaneLate(inlet, rotor, outlet, vane) ==
    LET named == IF vane = None
                 THEN [k \in {"inlet", "rotor", "outlet"} |->
                          CASE k = "inlet" -> inlet [] k = "rotor" -> rotor
                            [] k = "outlet" -> outlet]
                 ELSE [k \in {"inlet", "rotor", "outlet", "vane"} |->
                          CASE k = "inlet" -> inlet [] k = "rotor" -> rotor
                            [] k = "outlet" -> outlet [] k = "vane" -> vane]
    IN  named @@ [assembly |-> concatenate(<<inlet, rotor, outlet>>)]

\* the mapping assemble_pump returns (lines 218-224); dict order is inlet,
\* rotor, outlet, vane
PumpParts(inlet, rotor, outlet, vane) ==
    LET named == IF vane = None
                 THEN [k \in {"inlet", "rotor", "outlet"} |->
                          CASE k = "inlet" -> inlet [] k = "rotor" -> rotor
                            [] k = "outlet" -> outlet]
                 ELSE [k \in {"inlet", "rotor", "outlet", "vane"} |->
                          CASE k = "inlet" -> inlet [] k = "rotor" -> rotor
                            [] k = "outlet" -> outlet [] k = "vane" -> vane]
        assembly == concatenate(<<inlet, rotor, outlet>>
                                \o (IF vane = None THEN << >> ELSE <<vane>>))
    IN  named @@ [assembly |-> assembly]

\* assemble_pump from the outlet check on (lines 210-224)
PumpOutlet(a, events, hub_radius, current_z, inlet, rotor, vane, rotor_blade, vane_blade) ==
    IF a.outlet_shaft_radius > hub_radius
    THEN PumpRaise("ShaftRadiusTooLarge", events \o <<"check:shaft_radius">>,
                   rotor_blade, vane_blade)
    ELSE
    LET shaft == apply_translation(Cylinder(a.outlet_shaft_radius, a.outlet_shaft_length),
                                   current_z + Half(a.outlet_shaft_length))
        Diffused(d) ==
            IF d.err # "none"
            THEN PumpRaise(d.err, events \o <<"check:shaft_radius">>,
                           rotor_blade, vane_blade)
            ELSE [err |-> "none",
                  events |-> events
                             \o <<"check:shaft_radius", "build:outlet", "build:assembly">>,
                  parts |-> PumpParts(inlet, rotor,
                                      concatenate(<<d.mesh, <<shaft>> >>), vane),
                  rotor_blade |-> rotor_blade, vane_blade |-> vane_blade]
    IN  Diffused(create_diffuser(a.outlet_shape, hub_radius, a.outlet_shaft_radius,
                                 hub_radius, current_z, "top"))

\* assemble_pump from the vane on (lines 190-208)
PumpVane(a, events, hub_radius, inlet, rotor, rotor_blade) ==
    LET ev == events \o <<"check:hub_radius", "check:vane_span">>
        \* the outlet, after no vane (v = None) or the vane assembly v
        Outlet(v) ==
            IF v = None
            THEN PumpOutlet(a, events, hub_radius, a.rotor_height, inlet, rotor, None,
                            rotor_blade, None)
            ELSE IF v.err # "none" THEN PumpRaise(v.err, ev, rotor_blade, v.blade)
            ELSE PumpOutlet(a, ev \o <<"build:vane">>, hub_radius,
                            a.rotor_height + a.vane_height, inlet, rotor, v.mesh,
                            rotor_blade, v.blade)
        \* lines 195-208, with the vane blade vb
        VaneChecked(vb) ==
            IF ~IsClose(vb.hub_radius, hub_radius)
            THEN PumpRaise("HubRadiusMismatch", events \o <<"check:hub_radius">>,
                           rotor_blade, vb)
            ELSE IF a.vane_height < PumpSpan(vb)
            THEN PumpRaise("HeightBelowSpan", ev, rotor_blade, vb)
            ELSE Outlet(assemble_blades_on_cylinder(vb, a.n_vane_blades, hub_radius,
                                                    a.vane_height, a.rotor_height,
                                                    a.as_solid))
        \* lines 191-193, with the outcome g of loading the vane
        VaneLoaded(g) ==
            IF g = None THEN Outlet(None)
            ELSE IF g.err # "none" THEN PumpRaise(g.err, events, rotor_blade, g.blade)
            ELSE VaneChecked(g.blade)
    IN  VaneLoaded(IF a.vane_blade_file = NoFile THEN None
               ELSE generate_surface(load_metadata(a.vane_blade_file),
                                     PointsPerChordDefault))

\* assemble_pump from its first line on (lines 167-188)
PumpRotor(a) ==
    LET ev == <<"check:rotor_span", "build:inlet">>
        \* lines 180-188, with the inlet i and the rotor assembly r
        Built(i, r, hub_radius) ==
            IF r.err # "none" THEN PumpRaise(r.err, ev, r.blade, None)
            ELSE PumpVane(a, ev \o <<"build:rotor">>, hub_radius, i.mesh, r.mesh,
                          r.blade)
        \* line 177, with the rotor blade rb and the inlet i
        Inlet(rb, i) ==
            IF i.err # "none" THEN PumpRaise(i.err, <<"check:rotor_span">>, rb, None)
            ELSE Built(i, assemble_blades_on_cylinder(rb, a.n_rotor_blades, rb.hub_radius,
                                                      a.rotor_height, 0, a.as_solid),
                       rb.hub_radius)
        \* lines 171-177, with the rotor blade rb
        RotorChecked(rb) ==
            IF a.rotor_height < PumpSpan(rb)
            THEN PumpRaise("HeightBelowSpan", <<"check:rotor_span">>, rb, None)
            ELSE Inlet(rb, create_diffuser(a.inlet_shape, rb.hub_radius, rb.hub_radius,
                                           rb.hub_radius, 0 - rb.hub_radius, "bottom"))
        \* lines 168-169, with the outcome g of loading the rotor
        RotorLoaded(g) ==
            IF g.err # "none" THEN PumpRaise(g.err, << >>, g.blade, None)
            ELSE RotorChecked(g.blade)
    IN  RotorLoaded(generate_surface(load_metadata(a.rotor_blade_file), PointsPerChordDefault))

\* assemble_pump with the shaft radius validated before anything is built
assemble_pump_eager(a) ==
    IF a.outlet_shaft_radius > load_metadata(a.rotor_blade_file).hub_radius
    THEN PumpRaise("ShaftRadiusTooLarge", <<"check:shaft_radius">>, None, None)
    ELSE PumpRotor(a)

\* assemble_pump(**a): the error raised, the checks and constructions done in
\* order, the mapping returned and the two blades it loaded as it leaves them
assemble_pump(a) == PumpRotor(a)

----------------------------------------------------------------------------
(* Blades and calls enumerated *)

Blades ==
    { Blade3D(LayerList(n), FullTurn \div 12, H, 0, One, 2 * One) :
        n \in 0..MaxLayers, H \in {0, One} }

Heights == {One, 3 * One}
ZBases == {0, One}
NBlades == {1, 2, MaxBlades}

NoCall == [op |-> "none"]

Init ==
    /\ blade \in Blades
    /\ last = NoCall
    /\ pump = NoCall
    /\ diffuser = NoCall

\* blade.generate_surface(points_per_chord=N)
GenerateSurface ==
    \E N \in 2..MaxN :
        \E r \in {generate_surface(blade, N)} :
            /\ blade' = r.blade
            /\ last' = [op |-> "generate_surface", N |-> N, err |-> r.err]
            /\ UNCHANGED <<pump, diffuser>>

\* assemble_blades_on_cylinder(blade, n_blades, radius, height, z_base, as_solid)
AssembleBladesOnCylinder ==
    \E n_blades \in NBlades, height \in Heights, z_base \in ZBases,
       as_solid \in BOOLEAN :
        \E r \in {assemble_blades_on_cylinder(blade, n_blades, blade.hub_radius,
                                                height, z_base, as_solid)} :
            /\ blade' = r.blade
            /\ last' = [op |-> "assemble_blades_on_cylinder", n_blades |-> n_blades,
                        height |-> height, z_base |-> z_base, as_solid |-> as_solid,
                        err |-> r.err, mesh |-> r.mesh]
            /\ UNCHANGED <<pump, diffuser>>

Next == GenerateSurface \/ AssembleBladesOnCylinder

Spec == Init /\ [][Next]_vars

----------------------------------------------------------------------------
(* Calls of create_diffuser *)

InitDiffuser ==
    /\ blade = Blade3D(LayerList(2), FullTurn \div 12, One, 0, One, 2 * One)
    /\ last = NoCall
    /\ pump = NoCall
    /\ diffuser = NoCall

\* create_diffuser(shape, radius_base, radius_top, height, z_base, position);
\* the call keeps no state between calls, so a behaviour holds one call
CreateDiffuser ==
    \E shape \in {"hemisphere", "paraboloid", "cone"},
       radius_base \in {One, 2 * One}, height \in {One, 2 * One},
       z_base \in {0 - One, 0, One}, position \in {"bottom", "top", "middle"} :
        \E r \in {create_diffuser(shape, radius_base, radius_base, height, z_base,
                                    position)} :
            /\ diffuser = NoCall
            /\ diffuser' = [op |-> "create_diffuser", shape |-> shape,
                            radius_base |-> radius_base, height |-> height,
                            z_base |-> z_base, position |-> position,
                            err |-> r.err, mesh |-> r.mesh]
            /\ UNCHANGED <<blade, last, pump>>

NextDiffuser == CreateDiffuser

SpecDiffuser == InitDiffuser /\ [][NextDiffuser]_vars

----------------------------------------------------------------------------
(* Calls of assemble_pump *)

PumpArgs ==
    [rotor_blade_file : Files, vane_blade_file : Files \cup {NoFile},
     rotor_height : {One, 3 * One}, vane_height : {One, 3 * One},
     n_rotor_blades : {2}, n_vane_blades : {3},
     outlet_shaft_radius : {One \div 2, 3 * One}, outlet_shaft_length : {One},
     inlet_shape : {"hemisphere"}, outlet_shape : {"hemisphere", "paraboloid"},
     as_solid : BOOLEAN]

\* assemble_pump(rotor_blade_file, vane_blade_file, ...); the call keeps no
\* state between calls, so a behaviour holds one call
AssemblePump ==
    \E a \in PumpArgs :
        /\ pump = NoCall
        /\ pump' = [op |-> "assemble_pump", args |-> a] @@ assemble_pump(a)
        /\ UNCHANGED <<blade, last, diffuser>>

NextPump == AssemblePump

SpecPump == InitDiffuser /\ [][NextPump]_vars

----------------------------------------------------------------------------
(* Calls of _generate_solid_from_surfaces, as export_mesh(as_solid=True)   *)
(* makes them on a blade whose surface may or may not exist yet            *)

Modes == {"upper", "lower", "both"}

\* blade._generate_solid_from_surfaces(mode); the Trimesh is recorded as it is
\* handed to trimesh, before the library's repairs
GenerateSolid ==
    \E mode \in Modes :
        \E r \in {generate_solid_from_surfaces(blade, mode)} :
            /\ blade' = r.blade
            /\ last' = [op |-> "generate_solid", mode |-> mode,
                        err |-> r.err, mesh |-> r.mesh]
            /\ UNCHANGED <<pump, diffuser>>

NextSolid == GenerateSurface \/ GenerateSolid

\* the blades constructed in memory and the blades loaded from the files
InitSolid ==
    /\ blade \in Blades \cup {load_metadata(f) : f \in Files}
    /\ last = NoCall
    /\ pump = NoCall
    /\ diffuser = NoCall

SpecSolid == InitSolid /\ [][NextSolid]_vars

----------------------------------------------------------------------------
(* Properties of generate_surface *)

\* the generate_surface call just made succeeded
Generated == last.op = "generate_surface" /\ last.err = "none"

\* quad k (0-based) of a flat connectivity array
QuadAt(flat, k) == [c \in 1..5 |-> flat[5 * k + c]]

\* C1: after generate_surface(N) on a blade of n >= 2 layers, N >= 2, each of
\* the three vertex arrays holds n*N points in layer-then-chord order, each
\* face array holds the (n-1)*(N-1) quads (i*N+j, i*N+j+1, (i+1)*N+j+1,
\* (i+1)*N+j), every face index is below n*N, no quad joins chord N-1 to chord
\* 0, and the three arrays keep one common length, a multiple of the number
\* of layers, in every later state.
C1_SurfaceShape ==
    LET n == Len(blade.layers)
        arrays == <<blade.vertices_upper, blade.vertices_lower, blade.vertices_center>>
        allfaces == <<blade.faces_upper, blade.faces_lower, blade.faces_center>>
    IN  /\ blade.vertices_upper # None =>
              /\ \A a \in 1..3 : Len(arrays[a]) = Len(blade.vertices_upper)
              /\ Len(blade.vertices_upper) % n = 0
              /\ last.op = "generate_surface" => Len(blade.vertices_upper) = n * last.N
              /\ \A a \in 1..3 : \A p \in 1..Len(allfaces[a]) :
                    (p - 1) % 5 # 0 => allfaces[a][p] < Len(blade.vertices_upper)
        /\ (Generated /\ n >= 2 /\ last.N >= 2) =>
              LET N == last.N
              IN  /\ \A a \in 1..3 : \A i \in 0..(n - 1) : \A j \in 0..(N - 1) :
                        /\ arrays[a][i * N + j + 1].r = LayerRadius(blade, i, n)
                        /\ arrays[a][i * N + j + 1].th
                              = blade.layers[i + 1].theta0 + (Xi(j, N) * blade.Theta) \div Milli
                  /\ \A a \in 1..3 :
                        /\ Len(allfaces[a]) = 5 * (n - 1) * (N - 1)
                        /\ \A i \in 0..(n - 2) : \A j \in 0..(N - 2) :
                              QuadAt(allfaces[a], i * (N - 1) + j)
                                  = <<4, i * N + j, i * N + j + 1,
                                      (i + 1) * N + j + 1, (i + 1) * N + j>>
                        /\ \A k \in 0..((n - 1) * (N - 1) - 1) :
                              LET q == QuadAt(allfaces[a], k)
                              IN  /\ q[2] % N < N - 1
                                  /\ q[3] % N = (q[2] % N) + 1
                                  /\ q[4] % N = (q[5] % N) + 1

\* C1 witness: a surface of three layers and three chord points was generated
C1_Witness ==
    /\ Generated
    /\ Len(blade.layers) = 3
    /\ last.N = 3
    /\ Len(blade.faces_upper) = 20

\* C8 as claimed: generate_surface on a blade of fewer than two layers fails
\* on a precondition, that is, before it has touched the blade.
C8_Original ==
    [][(last'.op = "generate_surface" /\ Len(blade.layers) < 2)
          => (last'.err # "none" /\ blade' = blade)]_vars

\* C8 amended: generate_surface on a blade of fewer than two layers fails in an
\* array operation: with no layer in np.vstack, the blade untouched; with one
\* layer in np.hstack of build_faces, after the three vertex arrays have been
\* replaced by the N points of the layer and with the face arrays left as
\* they were.
C8_IncidentalFailure ==
    [][(last'.op = "generate_surface" /\ Len(blade.layers) < 2)
          => IF Len(blade.layers) = 0
             THEN last'.err = "ValueError:vstack" /\ blade' = blade
             ELSE /\ last'.err = "ValueError:hstack"
                  /\ Len(blade'.vertices_upper) = last'.N
                  /\ Len(blade'.vertices_lower) = last'.N
                  /\ Len(blade'.vertices_center) = last'.N
                  /\ blade' = [blade EXCEPT !.vertices_upper = blade'.vertices_upper,
                                            !.vertices_lower = blade'.vertices_lower,
                                            !.vertices_center = blade'.vertices_center]]_vars

\* C8 witness: a one-layer blade whose generation failed with its vertex
\* arrays written and its face arrays still None
C8_Witness ==
    /\ last.op = "generate_surface"
    /\ Len(blade.layers) = 1
    /\ last.err = "ValueError:hstack"
    /\ Len(blade.vertices_upper) = last.N
    /\ blade.faces_upper = None

----------------------------------------------------------------------------
(* Properties of assemble_blades_on_cylinder *)

Assembled == last.op = "assemble_blades_on_cylinder"

\* the z-coordinates of the upper and lower vertex clouds of a blade
ZAll(b) == ZOf(b.vertices_upper) \o ZOf(b.vertices_lower)

\* C2 as claimed: a call that gets as far as the span check fails with
\* SpanExceedsHeight exactly when height is less than max z - min z over the
\* upper and lower vertex clouds the blade holds at that call.
C2_Original ==
    (Assembled /\ last.err \in {"none", "SpanExceedsHeight"})
        => (last.err = "SpanExceedsHeight" <=> last.height < ZSpan(ZAll(blade)))

\* C3 as claimed: a successful call returns the hub cylinder and n_blades
\* copies, copy i being the blade mesh translated by z_shift = z_base +
\* height/2 - (span_min + span/2) and then rotated by 2*pi*i/n_blades, so that
\* every copy is centred axially at z_base + height/2.
C3_Original ==
    (Assembled /\ last.err = "none") =>
        LET base == blade.vertices_upper \o blade.vertices_lower
            z == ZAll(blade)
            z_shift == last.z_base + Half(last.height) - (SeqMin(z) + Half(ZSpan(z)))
        IN  /\ Len(last.mesh) = 1 + last.n_blades
            /\ last.mesh[1] = [kind |-> "cylinder", radius |-> blade.hub_radius,
                               height |-> last.height,
                               zc |-> last.z_base + Half(last.height)]
            /\ \A i \in 0..(last.n_blades - 1) :
                  LET copy == last.mesh[i + 2].verts
                  IN  /\ Len(copy) = Len(base)
                      /\ \A k \in 1..Len(base) :
                            /\ copy[k].z = base[k].z + z_shift
                            /\ copy[k].r = base[k].r
                            /\ copy[k].th
                                  = (base[k].th + (FullTurn * i) \div last.n_blades) % FullTurn
                      /\ SeqMin(ZOf(copy)) + SeqMax(ZOf(copy))
                            = 2 * last.z_base + last.height

\* C10 as claimed: a call leaves the blade, its cached arrays and its set of
\* attributes, as it found them.
C10_Original ==
    [][last'.op = "assemble_blades_on_cylinder" => blade' = blade]_vars

\* C10 amended: a call keeps every attribute the blade had and adds at most
\* the attribute z_coords; on a blade whose surface exists it leaves every
\* attribute's value, the six cached arrays included, as it found it; on a
\* blade with no surface it leaves the blade as generate_surface() with the
\* default points_per_chord does. Every copy placed in the result is the
\* untransformed blade mesh shifted once by the z-shift and turned once by its
\* own angle.
C10_FrameOfAssemble ==
    [][last'.op = "assemble_blades_on_cylinder" =>
          LET g == IF blade.vertices_upper = None
                   THEN generate_surface(blade, PointsPerChordDefault).blade
                   ELSE blade
              base == blade'.vertices_upper \o blade'.vertices_lower
          IN  /\ DOMAIN blade \subseteq DOMAIN blade'
              /\ DOMAIN blade' \subseteq DOMAIN blade \cup {"z_coords"}
              /\ \A f \in DOMAIN blade : blade'[f] = g[f]
              /\ last'.err = "none" =>
                    \A i \in 0..(last'.n_blades - 1) : \A k \in 1..Len(base) :
                        /\ last'.mesh[i + 2].verts[k].z
                              = base[k].z + ZShift(blade'.z_coords, last'.height, last'.z_base)
                        /\ last'.mesh[i + 2].verts[k].th
                              = (base[k].th + BladeAngle(i, last'.n_blades)) % FullTurn]_vars

\* C10 witness: a successful call with four copies on a blade that now
\* carries z_coords
C10_Witness ==
    /\ Assembled
    /\ last.err = "none"
    /\ last.n_blades = MaxBlades
    /\ "z_coords" \in DOMAIN blade
    /\ Len(blade.layers) >= 2

----------------------------------------------------------------------------
(* Properties of assemble_pump *)

Pumped == pump.op = "assemble_pump"

InEvents(e) == \E k \in 1..Len(pump.events) : pump.events[k] = e

\* C4: a successful call returns a mapping with the keys inlet, rotor, outlet,
\* assembly, and vane exactly when a vane file was given; assembly is the
\* union of the other parts of the mapping, each of which is present: the
\* inlet cap, the rotor hub with its n_rotor_blades copies, the outlet cap with
\* the shaft, the vane hub with its n_vane_blades copies.
C4_PumpMapping ==
    (Pumped /\ pump.err = "none") =>
        LET vaned == pump.args.vane_blade_file # NoFile
            p == pump.parts
        IN  /\ DOMAIN p = {"inlet", "rotor", "outlet", "assembly"}
                            \cup (IF vaned THEN {"vane"} ELSE {})
            /\ p.assembly = p.inlet \o p.rotor \o p.outlet
                              \o (IF vaned THEN p.vane ELSE << >>)
            /\ Len(p.inlet) = 1
            /\ Len(p.rotor) = 1 + pump.args.n_rotor_blades
            /\ Len(p.outlet) = 2
            /\ vaned => Len(p.vane) = 1 + pump.args.n_vane_blades

\* C4 witness: a successful call with a vane
C4_Witness ==
    /\ Pumped
    /\ pump.err = "none"
    /\ pump.args.vane_blade_file # NoFile
    /\ "vane" \in DOMAIN pump.parts

\* C5 as claimed: the call fails with HeightBelowSpan at the rotor check exactly
\* when rotor_height is less than max z - min z over the rotor blade's upper
\* and lower vertex clouds, and once the call's own span checks have passed the
\* SpanExceedsHeight check of assemble_blades_on_cylinder passes too.
C5_Original ==
    Pumped =>
        /\ pump.rotor_blade.vertices_upper # None =>
              ((pump.err = "HeightBelowSpan" /\ pump.events = <<"check:rotor_span">>)
                  <=> pump.args.rotor_height < ZSpan(ZAll(pump.rotor_blade)))
        /\ pump.err # "SpanExceedsHeight"

\* the call got as far as comparing the hub radii
HubCompared == Pumped /\ InEvents("check:hub_radius")

\* |vane.hub_radius - rotor.hub_radius|
HubDifference == Abs(pump.vane_blade.hub_radius - pump.rotor_blade.hub_radius)

\* C6 as claimed: the vane is accepted exactly when the hub radii differ by at
\* most 1e-6, whatever their magnitude.
C6_Original ==
    HubCompared => (pump.err = "HubRadiusMismatch" <=> HubDifference > One \div AtolInv)

\* C6 amended: the vane is accepted exactly when |vane.hub_radius -
\* rotor.hub_radius| <= 1e-6 + 1e-5 * |rotor.hub_radius|, and otherwise the
\* call fails with HubRadiusMismatch.
C6_RelativeTolerance ==
    HubCompared =>
        (pump.err = "HubRadiusMismatch"
            <=> HubDifference
                   > ((One * RtolInv) \div AtolInv + Abs(pump.rotor_blade.hub_radius))
                        \div RtolInv)

\* C6 witness: a vane whose hub radius differs from the rotor's is accepted
C6_Witness ==
    /\ HubCompared
    /\ HubDifference > 0
    /\ pump.err # "HubRadiusMismatch"

ValidationErrors == {"HeightBelowSpan", "HubRadiusMismatch", "ShaftRadiusTooLarge"}
BuildEvents == {"build:inlet", "build:rotor", "build:vane", "build:outlet", "build:assembly"}

\* C7 as claimed: no validation failure is raised after a part has been built.
C7_Original ==
    (Pumped /\ pump.err \in ValidationErrors) => \A e \in BuildEvents : ~InEvents(e)

\* C7 amended: only the rotor span is validated before anything is built. The
\* vane's hub radius and span are validated after the inlet and the rotor have
\* been built, the shaft radius after the inlet, the rotor and (when given) the
\* vane have been built; a call that fails returns no mapping.
C7_ValidationOrder ==
    Pumped =>
        LET vaned == pump.args.vane_blade_file # NoFile
            upto_rotor == <<"check:rotor_span", "build:inlet", "build:rotor">>
            upto_vane == upto_rotor \o <<"check:hub_radius", "check:vane_span", "build:vane">>
        IN  /\ pump.err # "none" => pump.parts = None
            /\ pump.err = "HeightBelowSpan" =>
                  \/ pump.events = <<"check:rotor_span">>
                  \/ pump.events = upto_rotor \o <<"check:hub_radius", "check:vane_span">>
            /\ pump.err = "HubRadiusMismatch" =>
                  pump.events = upto_rotor \o <<"check:hub_radius">>
            /\ pump.err = "ShaftRadiusTooLarge" =>
                  pump.events = (IF vaned THEN upto_vane ELSE upto_rotor)
                                   \o <<"check:shaft_radius">>

\* C7 witness: the shaft radius is rejected after inlet, rotor and vane were
\* built
C7_Witness ==
    /\ Pumped
    /\ pump.err = "ShaftRadiusTooLarge"
    /\ InEvents("build:rotor")
    /\ InEvents("build:vane")

----------------------------------------------------------------------------
(* Properties of create_diffuser *)

Hemisphered == diffuser.op = "create_diffuser" /\ diffuser.shape = "hemisphere"

\* the vertices of polar index i of the hemisphere returned
PolarRow(i) == [j \in 1..n_phi |-> diffuser.mesh[1].verts[i * n_phi + j]]

\* every vertex of the row lies at height z and at distance r from the axis
RowAt(row, r, z) == \A j \in 1..Len(row) : row[j].z = z /\ row[j].r = r

----------------------------------------------------------------------------
(* Properties of _generate_solid_from_surfaces *)

\* the _generate_solid_from_surfaces call just made returned a mesh
SolidBuilt == last.op = "generate_solid" /\ last.err = "none"

\* the vertex (0-based) that v stands for once a lower vertex at chord index
\* 0 or N-1 that coincides with the upper vertex of the same layer and chord
\* is identified with it; nN is the size of the upper block
Identified(verts, nN, N, v) ==
    IF v >= nN /\ ((v - nN) % N) \in {0, N - 1} /\ verts[v + 1] = verts[v - nN + 1]
    THEN v - nN
    ELSE v

\* the faces over identified vertices
IdentifiedFaces(mesh, nN, N) ==
    [k \in 1..Len(mesh.faces) |->
        [p \in 1..3 |-> Identified(mesh.verts, nN, N, mesh.faces[k][p])]]

\* the faces that keep three distinct corners after the identification
ProperFaces(F) ==
    {k \in 1..Len(F) : F[k][1] # F[k][2] /\ F[k][2] # F[k][3] /\ F[k][1] # F[k][3]}

\* the number of the faces in K that traverse the edge from a to b
Traversals(F, K, a, b) ==
    Cardinality({k \in K : \E p \in 1..3 : F[k][p] = a /\ F[k][(p % 3) + 1] = b})

\* C11 as claimed: in mode 'both', for n >= 2 layers, every edge of the emitted
\* triangles (coinciding leading- and trailing-edge vertices identified, the
\* triangles that collapse under the identification left out) is traversed
\* by exactly one triangle in each direction.
C11_Original ==
    (SolidBuilt /\ last.mode = "both" /\ Len(blade.layers) >= 2) =>
        LET n == Len(blade.layers)
            nN == Len(blade.vertices_upper)
            F == IdentifiedFaces(last.mesh, nN, nN \div n)
            K == ProperFaces(F)
        IN  \A k \in K : \A p \in 1..3 :
                /\ Traversals(F, K, F[k][p], F[k][(p % 3) + 1]) = 1
                /\ Traversals(F, K, F[k][(p % 3) + 1], F[k][p]) = 1

\* the corners of a triangle, as a set
Corners(t) == {t[1], t[2], t[3]}

\* C12: the mesh _generate_solid_from_surfaces hands to trimesh, for n layers
\* and N chord points: in mode 'both' the upper cloud followed by the lower
\* cloud (2*n*N vertices), then 2*(n-1)*(N-1) triangles within the upper
\* block, 2*(n-1)*(N-1) triangles within the lower block at offset n*N, and
\* 2*n*(N-1) side-wall triangles, the two of layer i and chord step j joining
\* upper (i,j), (i,j+1) to lower (i,j+1), (i,j); in mode 'upper' or 'lower'
\* the n*N vertices of that cloud and 2*(n-1)*(N-1) triangles at offset 0,
\* with no side walls.  In every mode each face index is below the number of
\* vertices.
C12_SolidCounts ==
    SolidBuilt =>
        LET n == Len(blade.layers)
            nN == Len(blade.vertices_upper)
            N == nN \div n
            V == last.mesh.verts
            F == last.mesh.faces
            S == 2 * (n - 1) * (N - 1)
            W == 2 * n * (N - 1)
        IN  /\ nN = n * N
            /\ last.mode = "both" =>
                  /\ V = blade.vertices_upper \o blade.vertices_lower
                  /\ Len(V) = 2 * n * N
                  /\ Len(F) = 2 * S + W
                  /\ \A k \in 1..S : Corners(F[k]) \subseteq 0..(nN - 1)
                  /\ \A k \in (S + 1)..(2 * S) : Corners(F[k]) \subseteq nN..(2 * nN - 1)
                  /\ \A i \in 0..(n - 1) : \A j \in 0..(N - 2) :
                        LET quad == {i * N + j, i * N + j + 1,
                                     nN + i * N + j + 1, nN + i * N + j}
                            k == 2 * S + 2 * (i * (N - 1) + j)
                        IN  /\ Corners(F[k + 1]) \subseteq quad
                            /\ Corners(F[k + 2]) \subseteq quad
                            /\ Corners(F[k + 1]) \cup Corners(F[k + 2]) = quad
            /\ last.mode \in {"upper", "lower"} =>
                  /\ V = (IF last.mode = "upper" THEN blade.vertices_upper
                                                 ELSE blade.vertices_lower)
                  /\ Len(V) = n * N
                  /\ Len(F) = S
                  /\ S > 0 => 0 \in Corners(F[1])
            /\ \A k \in 1..Len(F) : Corners(F[k]) \subseteq 0..(Len(V) - 1)

\* C12 witness: a mesh was built in mode 'lower' on three layers of three
\* chord points, with its eight triangles
C12_Witness ==
    /\ SolidBuilt
    /\ last.mode = "lower"
    /\ Len(blade.layers) = 3
    /\ Len(blade.vertices_upper) = 9
    /\ Len(last.mesh.faces) = 8

====
